---------------------------- MODULE Spec2Model ----------------------------
(***************************************************************************)
(* A model of the collation facade of go/mysql/collations/uca.go:          *)
(* Collate, WeightString, WeightStringLen and the once-only init() of the  *)
(* UCA 900, legacy UCA and utf8mb4_0900_bin collations.                    *)
(*                                                                         *)
(* The weight iterators (package internal/uca) are not part of the source  *)
(* at hand; they are modelled from their documented contract.  An input    *)
(* string is a sequence of codepoints; the charset decoder and the weight  *)
(* table are the function WeightTable below.                               *)
(***************************************************************************)
EXTENDS Integers, Sequences, FiniteSets, TLC

(***************************************************************************)
(* Bounds of the model.                                                    *)
(***************************************************************************)
\* Collate: the two operands hold at most this many codepoints together.
MaxTotalLen == 3

\* WeightString: src holds at most this many codepoints.
MaxSrcLen == 2

\* WeightString: dst holds at most this many bytes when it is passed.
MaxDstLen == 1

\* WeightString: the largest numCodepoints passed, PadToMax apart.
MaxNumCodepoints == 2

\* WeightStringLen: numBytes ranges over -MaxNumBytes..MaxNumBytes.
MaxNumBytes == 9

\* init: the number of goroutines that call init() of one collation.
NumThreads == 2

(***************************************************************************)
(* Go integer helpers.                                                     *)
(***************************************************************************)
\* In the definitions below a value that is used more than once is bound by
\* membership of a one-element set, {e : x \in {v}}, and taken out of it by
\* CHOOSE: it is the LET of a value that is worked out once.
Sign(x) == IF x < 0 THEN -1 ELSE IF x > 0 THEN 1 ELSE 0

Min(x, y) == IF x <= y THEN x ELSE y

SeqsUpTo(S, n) == UNION {[1..k -> S] : k \in 0..n}

IsPrefixOf(p, s) == Len(p) <= Len(s) /\ SubSeq(s, 1, Len(p)) = p

(***************************************************************************)
(* The weight table and the charset decoder (internal/uca and              *)
(* internal/charset).  Every codepoint has its utf8mb4 bytes and a list   *)
(* of collation elements;       a collation element carries one 16-bit      *)
(* weight per level, 0 meaning "ignorable at this level".  The values are  *)
(* those of the UCA 9.0.0 table:                                           *)
(*   a     U+0061  [.1C47.0020.0002]                                       *)
(*   A     U+0041  [.1C47.0020.0008]                                       *)
(*   zh    U+017E  [.1F21.0020.0002][.0000.0028.0002]                      *)
(*   ctl   U+0001  [.0000.0000.0000]                                       *)
(*   acute U+0301  [.0000.0024.0002]                                       *)
(*   sp    U+0020  [.0209.0020.0002]                                       *)
(*   lig   U+FDFA  eight collation elements (the table's maximum)          *)
(*   bad   a byte the decoder rejects: decoding stops there                *)
(***************************************************************************)
TableLevels == {0, 1, 2}

WeightTable ==
    [ a     |-> [bytes |-> <<97>>, ces |-> << <<7239, 32, 2>> >>],
      A     |-> [bytes |-> <<65>>, ces |-> << <<7239, 32, 8>> >>],
      zh    |-> [bytes |-> <<197, 190>>, ces |-> << <<7969, 32, 2>>, <<0, 40, 2>> >>],
      ctl   |-> [bytes |-> <<1>>, ces |-> << <<0, 0, 0>> >>],
      acute |-> [bytes |-> <<204, 129>>, ces |-> << <<0, 36, 2>> >>],
      sp    |-> [bytes |-> <<32>>, ces |-> << <<521, 32, 2>> >>],
      lig   |-> [bytes |-> <<239, 183, 186>>, ces |-> << <<9004, 32, 4>>, <<9015, 32, 4>>,
                           <<9016, 32, 4>>, <<521, 32, 4>>,
                           <<8988, 32, 4>>, <<9015, 32, 4>>,
                           <<9016, 32, 4>>, <<9017, 32, 4>> >>],
      bad   |-> [bytes |-> <<255>>, ces |-> << >>] ]

Undecodable(cp) == cp = "bad"

\* the weights of one codepoint at one level, zero weights included
CodepointWeights(cp, lv) ==
    [i \in 1..Len(WeightTable[cp].ces) |-> WeightTable[cp].ces[i][lv + 1]]

\* the bytes of an input, and their number
RECURSIVE Bytes(_)
Bytes(s) == IF s = <<>> THEN <<>> ELSE WeightTable[Head(s)].bytes \o Bytes(Tail(s))

ByteLen(s) == Len(Bytes(s))

(***************************************************************************)
(* internal/uca iterators.  An iterator is a record:                       *)
(*   input, pos   the string and the next codepoint to decode              *)
(*   pend         the weights of the last decoded codepoint not yet given  *)
(*   level        the current level                                        *)
(*   maxLevel     the collation's number of levels                         *)
(*   length       codepoints decoded (legacy)                              *)
(*   released     number of Done() calls                                   *)
(***************************************************************************)
Iterator(input, maxLevel) ==
    [input |-> input, pos |-> 1, pend |-> <<>>, level |-> 0,
     maxLevel |-> maxLevel, length |-> 0, released |-> 0]

AtEnd(it) == it.pos > Len(it.input) \/ Undecodable(it.input[it.pos])

\* iterator900.Next: the next non-zero weight of the current level; at the end
\* of a level the separator (0, true) and the next level, or (0, false) after
\* the last level
RECURSIVE Next900(_)
Next900(it0) ==
    CHOOSE res \in {
    IF it.pend # <<>>
    THEN IF Head(it.pend) = 0
         THEN Next900([it EXCEPT !.pend = Tail(@)])
         ELSE [it |-> [it EXCEPT !.pend = Tail(@)], w |-> Head(it.pend), ok |-> TRUE]
    ELSE IF AtEnd(it)
         THEN IF it.level + 1 < it.maxLevel
              THEN [it |-> [it EXCEPT !.level = @ + 1, !.pos = 1], w |-> 0, ok |-> TRUE]
              ELSE [it |-> [it EXCEPT !.level = @ + 1], w |-> 0, ok |-> FALSE]
         ELSE Next900([it EXCEPT !.pend = CodepointWeights(it.input[it.pos],
                                                          it.level),
                                 !.pos = @ + 1])
    : it \in {it0}} : TRUE

\* iterator900.SkipLevel: drop the rest of the level, restart at the next one
SkipLevel(it) == [it EXCEPT !.pend = <<>>, !.level = @ + 1, !.pos = 1]

\* iteratorLegacy.Next: the next non-zero primary weight, (0, false) at the end
RECURSIVE NextLegacy(_)
NextLegacy(it0) ==
    CHOOSE res \in {
    IF it.pend # <<>>
    THEN IF Head(it.pend) = 0
         THEN NextLegacy([it EXCEPT !.pend = Tail(@)])
         ELSE [it |-> [it EXCEPT !.pend = Tail(@)], w |-> Head(it.pend), ok |-> TRUE]
    ELSE IF AtEnd(it)
         THEN [it |-> it, w |-> 0, ok |-> FALSE]
         ELSE NextLegacy([it EXCEPT !.pend = CodepointWeights(it.input[it.pos], 0),
                                    !.pos = @ + 1, !.length = @ + 1])
    : it \in {it0}} : TRUE

Done(it) == [it EXCEPT !.released = @ + 1]

(***************************************************************************)
(* The collations.  A collation is a record: kind is "uca900", "legacy" or *)
(* "bin"; levelsForCompare is the compare depth of a 900 collation; fast   *)
(* tells whether its iterators are FastIterator900.                        *)
(***************************************************************************)
LevelsForCompare == {1, 2, 3}

Collations ==
    [kind : {"uca900"}, levelsForCompare : LevelsForCompare, fast : BOOLEAN]
    \cup [kind : {"legacy", "bin"}, levelsForCompare : {1}, fast : {FALSE}]

\* c.uca.Iterator(src)
NewIterator(c, src) == Iterator(src, c.levelsForCompare)

(***************************************************************************)
(* Collate.  A call is a frame: the arguments, the locals of the function  *)
(* and the place it is at.                                                 *)
(***************************************************************************)
VARIABLES coll, left, right, rightIsPrefix,
          itleft, itright, l, r, lok, rok, level, pc, ret

collateVars == <<coll, left, right, rightIsPrefix,
                 itleft, itright, l, r, lok, rok, level, pc, ret>>

Frame ==
    [coll |-> coll, left |-> left, right |-> right, rightIsPrefix |-> rightIsPrefix,
     itleft |-> itleft, itright |-> itright, l |-> l, r |-> r,
     lok |-> lok, rok |-> rok, level |-> level, pc |-> pc, ret |-> ret]

\* a call of c.Collate(a, b, p) that has not started
CallFrame(c, a, b, p) ==
    [coll |-> c, left |-> a, right |-> b, rightIsPrefix |-> p,
     itleft |-> Iterator(<<>>, 0), itright |-> Iterator(<<>>, 0), l |-> 0, r |-> 0,
     lok |-> FALSE, rok |-> FALSE, level |-> 0, pc |-> "call", ret |-> 0]

\* return x: the deferred Done() of both iterators run
Return(f, x) ==
    [f EXCEPT !.ret = x, !.pc = "done",
              !.itleft = Done(f.itleft), !.itright = Done(f.itright)]

\* lines 84-94 and 265-273: the declarations of Collate
CollateEnter(f) ==
    [f EXCEPT !.itleft = NewIterator(f.coll, f.left),
              !.itright = NewIterator(f.coll, f.right),
              !.pc = IF f.coll.kind = "uca900" THEN "nextLevel" ELSE "loop"]

\* a plausible slip: the right weight read from the left iterator
Collate900LoopSameIterator(f) ==
    LET nl == Next900(f.itleft)
        nr == Next900(nl.it)
        g  == [f EXCEPT !.itleft = nr.it, !.l = nl.w, !.lok = nl.ok,
                        !.r = nr.w, !.rok = nr.ok]
    IN  IF nl.w # nr.w \/ ~nl.ok \/ ~nr.ok
        THEN [g EXCEPT !.pc = "switch"]
        ELSE IF nr.it.level # f.level \/ f.itright.level # f.level
             THEN [g EXCEPT !.pc = "switch"]
             ELSE g

\* lines 97-107: one iteration of the loop at nextLevel
Collate900Loop(f) ==
    CHOOSE res \in {
    LET g  == [f EXCEPT !.itleft = nl.it, !.l = nl.w, !.lok = nl.ok,
                        !.itright = nr.it, !.r = nr.w, !.rok = nr.ok]
    IN  IF nl.w # nr.w \/ ~nl.ok \/ ~nr.ok
        THEN [g EXCEPT !.pc = "switch"]
        ELSE IF nl.it.level # f.level \/ nr.it.level # f.level
             THEN [g EXCEPT !.pc = "switch"]
             ELSE g
    : nl \in {Next900(f.itleft)}, nr \in {Next900(f.itright)}} : TRUE

\* a plausible slip: the cases "one side is ahead" tried before "same level"
Collate900SwitchCaseOrder(f) ==
    IF f.itleft.level > f.level THEN Return(f, -1)
    ELSE IF f.itright.level > f.level
    THEN IF f.rightIsPrefix
         THEN LET sk == SkipLevel(f.itleft) IN
              IF sk.level < f.coll.levelsForCompare
              THEN [f EXCEPT !.itleft = sk, !.level = sk.level, !.pc = "nextLevel"]
              ELSE Return([f EXCEPT !.itleft = sk, !.level = sk.level], -f.r)
         ELSE Return(f, 1)
    ELSE Return(f, f.l - f.r)

\* a plausible slip: the level is counted but the goto nextLevel is missing
Collate900SwitchNoGoto(f) ==
    IF f.itleft.level = f.itright.level
    THEN IF f.l = f.r /\ f.lok /\ f.rok
         THEN Return([f EXCEPT !.level = @ + 1], f.l - f.r)
         ELSE Return(f, f.l - f.r)
    ELSE IF f.itleft.level > f.level
    THEN Return(f, -1)
    ELSE IF f.itright.level > f.level
    THEN IF f.rightIsPrefix
         THEN LET sk == SkipLevel(f.itleft) IN
              IF sk.level < f.coll.levelsForCompare
              THEN [f EXCEPT !.itleft = sk, !.level = sk.level, !.pc = "nextLevel"]
              ELSE Return([f EXCEPT !.itleft = sk, !.level = sk.level], -f.r)
         ELSE Return(f, 1)
    ELSE Return(f, f.l - f.r)

\* a plausible slip: Done() is called before the last return, not deferred,
\* so that the returns inside the switch leave without it
Collate900SwitchNoDefer(f) ==
    IF f.itleft.level = f.itright.level
    THEN IF f.l = f.r /\ f.lok /\ f.rok
         THEN IF f.level + 1 < f.coll.levelsForCompare
              THEN [f EXCEPT !.level = @ + 1, !.pc = "nextLevel"]
              ELSE Return([f EXCEPT !.level = @ + 1], f.l - f.r)
         ELSE Return(f, f.l - f.r)
    ELSE IF f.itleft.level > f.level
    THEN [f EXCEPT !.ret = -1, !.pc = "done"]
    ELSE IF f.itright.level > f.level
    THEN IF f.rightIsPrefix
         THEN LET sk == SkipLevel(f.itleft) IN
              IF sk.level < f.coll.levelsForCompare
              THEN [f EXCEPT !.itleft = sk, !.level = sk.level, !.pc = "nextLevel"]
              ELSE [f EXCEPT !.itleft = sk, !.level = sk.level, !.ret = -f.r,
                             !.pc = "done"]
         ELSE [f EXCEPT !.ret = 1, !.pc = "done"]
    ELSE Return(f, f.l - f.r)

\* a plausible slip: the two results of "one side is ahead" are exchanged
Collate900SwitchPolarity(f) ==
    IF f.itleft.level = f.itright.level
    THEN IF f.l = f.r /\ f.lok /\ f.rok
         THEN IF f.level + 1 < f.coll.levelsForCompare
              THEN [f EXCEPT !.level = @ + 1, !.pc = "nextLevel"]
              ELSE Return([f EXCEPT !.level = @ + 1], f.l - f.r)
         ELSE Return(f, f.l - f.r)
    ELSE IF f.itleft.level > f.level
    THEN Return(f, 1)
    ELSE IF f.itright.level > f.level
    THEN IF f.rightIsPrefix
         THEN LET sk == SkipLevel(f.itleft) IN
              IF sk.level < f.coll.levelsForCompare
              THEN [f EXCEPT !.itleft = sk, !.level = sk.level, !.pc = "nextLevel"]
              ELSE Return([f EXCEPT !.itleft = sk, !.level = sk.level], -f.r)
         ELSE Return(f, -1)
    ELSE Return(f, f.l - f.r)

\* a plausible slip: the level is advanced without SkipLevel on left
Collate900SwitchNoSkip(f) ==
    IF f.itleft.level = f.itright.level
    THEN IF f.l = f.r /\ f.lok /\ f.rok
         THEN IF f.level + 1 < f.coll.levelsForCompare
              THEN [f EXCEPT !.level = @ + 1, !.pc = "nextLevel"]
              ELSE Return([f EXCEPT !.level = @ + 1], f.l - f.r)
         ELSE Return(f, f.l - f.r)
    ELSE IF f.itleft.level > f.level
    THEN Return(f, -1)
    ELSE IF f.itright.level > f.level
    THEN IF f.rightIsPrefix
         THEN IF f.level + 1 < f.coll.levelsForCompare
              THEN [f EXCEPT !.level = @ + 1, !.pc = "nextLevel"]
              ELSE Return([f EXCEPT !.level = @ + 1], -f.r)
         ELSE Return(f, 1)
    ELSE Return(f, f.l - f.r)

\* a plausible slip: after SkipLevel the level is tested with <=
Collate900SwitchOffByOne(f) ==
    IF f.itleft.level = f.itright.level
    THEN IF f.l = f.r /\ f.lok /\ f.rok
         THEN IF f.level + 1 < f.coll.levelsForCompare
              THEN [f EXCEPT !.level = @ + 1, !.pc = "nextLevel"]
              ELSE Return([f EXCEPT !.level = @ + 1], f.l - f.r)
         ELSE Return(f, f.l - f.r)
    ELSE IF f.itleft.level > f.level
    THEN Return(f, -1)
    ELSE IF f.itright.level > f.level
    THEN IF f.rightIsPrefix
         THEN LET sk == SkipLevel(f.itleft) IN
              IF sk.level <= f.coll.levelsForCompare
              THEN [f EXCEPT !.itleft = sk, !.level = sk.level, !.pc = "nextLevel"]
              ELSE Return([f EXCEPT !.itleft = sk, !.level = sk.level], -f.r)
         ELSE Return(f, 1)
    ELSE Return(f, f.l - f.r)

\* a plausible slip: the prefix flag also forgives a left that ran out first
Collate900SwitchPrefixLeft(f) ==
    IF f.itleft.level = f.itright.level
    THEN IF f.l = f.r /\ f.lok /\ f.rok
         THEN IF f.level + 1 < f.coll.levelsForCompare
              THEN [f EXCEPT !.level = @ + 1, !.pc = "nextLevel"]
              ELSE Return([f EXCEPT !.level = @ + 1], f.l - f.r)
         ELSE Return(f, f.l - f.r)
    ELSE IF f.itleft.level > f.level
    THEN IF f.rightIsPrefix THEN Return(f, 0) ELSE Return(f, -1)
    ELSE IF f.itright.level > f.level
    THEN IF f.rightIsPrefix
         THEN LET sk == SkipLevel(f.itleft) IN
              IF sk.level < f.coll.levelsForCompare
              THEN [f EXCEPT !.itleft = sk, !.level = sk.level, !.pc = "nextLevel"]
              ELSE Return([f EXCEPT !.itleft = sk, !.level = sk.level], -f.r)
         ELSE Return(f, 1)
    ELSE Return(f, f.l - f.r)

\* lines 109-130: the switch after the loop
Collate900Switch(f) ==
    IF f.itleft.level = f.itright.level
    THEN IF f.l = f.r /\ f.lok /\ f.rok
         THEN IF f.level + 1 < f.coll.levelsForCompare
              THEN [f EXCEPT !.level = @ + 1, !.pc = "nextLevel"]
              ELSE Return([f EXCEPT !.level = @ + 1], f.l - f.r)
         ELSE Return(f, f.l - f.r)
    ELSE IF f.itleft.level > f.level
    THEN Return(f, -1)
    ELSE IF f.itright.level > f.level
    THEN IF f.rightIsPrefix
         THEN LET sk == SkipLevel(f.itleft) IN
              IF sk.level < f.coll.levelsForCompare
              THEN [f EXCEPT !.itleft = sk, !.level = sk.level, !.pc = "nextLevel"]
              ELSE Return([f EXCEPT !.itleft = sk, !.level = sk.level], -f.r)
         ELSE Return(f, 1)
    ELSE Return(f, f.l - f.r)

\* a plausible slip: the prefix flag is not consulted
CollateLegacyLoopNoPrefixFlag(f) ==
    LET nl == NextLegacy(f.itleft)
        nr == NextLegacy(f.itright)
        g  == [f EXCEPT !.itleft = nl.it, !.l = nl.w, !.lok = nl.ok,
                        !.itright = nr.it, !.r = nr.w, !.rok = nr.ok]
    IN  IF nl.w = nr.w /\ nl.ok /\ nr.ok
        THEN g
        ELSE IF ~nr.ok
             THEN Return(g, 0)
             ELSE Return(g, nl.w - nr.w)

\* a plausible slip: the weights are read but the iterators do not advance
CollateLegacyLoopNoAdvance(f) ==
    CHOOSE res \in {
    LET g  == [f EXCEPT !.l = nl.w, !.lok = nl.ok, !.r = nr.w, !.rok = nr.ok]
    IN  IF nl.w = nr.w /\ nl.ok /\ nr.ok
        THEN g
        ELSE IF ~nr.ok /\ f.rightIsPrefix
             THEN Return(g, 0)
             ELSE Return(g, nl.w - nr.w)
    : nl \in {NextLegacy(f.itleft)}, nr \in {NextLegacy(f.itright)}} : TRUE

\* a plausible slip: the prefix match is taken when left is exhausted
CollateLegacyLoopLeftExhausted(f) ==
    CHOOSE res \in {
    LET g  == [f EXCEPT !.itleft = nl.it, !.l = nl.w, !.lok = nl.ok,
                        !.itright = nr.it, !.r = nr.w, !.rok = nr.ok]
    IN  IF nl.w = nr.w /\ nl.ok /\ nr.ok
        THEN g
        ELSE IF ~nl.ok /\ f.rightIsPrefix
             THEN Return(g, 0)
             ELSE Return(g, nl.w - nr.w)
    : nl \in {NextLegacy(f.itleft)}, nr \in {NextLegacy(f.itright)}} : TRUE

\* lines 275-286: one iteration of the loop of the legacy Collate
CollateLegacyLoop(f) ==
    CHOOSE res \in {
    LET g  == [f EXCEPT !.itleft = nl.it, !.l = nl.w, !.lok = nl.ok,
                        !.itright = nr.it, !.r = nr.w, !.rok = nr.ok]
    IN  IF nl.w = nr.w /\ nl.ok /\ nr.ok
        THEN g
        ELSE IF ~nr.ok /\ f.rightIsPrefix
             THEN Return(g, 0)
             ELSE Return(g, nl.w - nr.w)
    : nl \in {NextLegacy(f.itleft)}, nr \in {NextLegacy(f.itright)}} : TRUE

\* bytes.Compare
RECURSIVE BytesCompare(_, _)
BytesCompare(x, y) ==
    IF x = <<>> THEN (IF y = <<>> THEN 0 ELSE -1)
    ELSE IF y = <<>> THEN 1
    ELSE IF Head(x) < Head(y) THEN -1
    ELSE IF Head(x) > Head(y) THEN 1
    ELSE BytesCompare(Tail(x), Tail(y))

\* collationBinary(left, right, rightPrefix) of the binary collations
collationBinary(x, y, rightPrefix) ==
    LET minLen == Min(Len(x), Len(y))
        diff   == BytesCompare(SubSeq(x, 1, minLen), SubSeq(y, 1, minLen))
    IN  IF diff # 0 THEN diff
        ELSE IF rightPrefix THEN minLen - Len(y)
        ELSE Len(x) - Len(y)

\* lines 203-205: Collate of utf8mb4_0900_bin
CollateBin(f) ==
    [f EXCEPT !.ret = collationBinary(Bytes(f.left), Bytes(f.right), f.rightIsPrefix),
              !.pc = "done"]

\* one step of a call of Collate
CollateStep(f) ==
    CASE f.pc = "call" /\ f.coll.kind = "bin" -> CollateBin(f)
      [] f.pc = "call" /\ f.coll.kind # "bin" -> CollateEnter(f)
      [] f.pc = "nextLevel" -> Collate900Loop(f)
      [] f.pc = "switch" -> Collate900Switch(f)
      [] f.pc = "loop" -> CollateLegacyLoop(f)

\* the frame a call ends in
RECURSIVE CollateRun(_)
CollateRun(f) == IF f.pc = "done" THEN f ELSE CollateRun(CollateStep(f))

\* the value c.Collate(a, b, p) returns
Collate(c, a, b, p) == CollateRun(CallFrame(c, a, b, p)).ret

SetFrame(ff) ==
    \E f \in {ff} :
    /\ coll' = f.coll /\ left' = f.left /\ right' = f.right
    /\ rightIsPrefix' = f.rightIsPrefix
    /\ itleft' = f.itleft /\ itright' = f.itright
    /\ l' = f.l /\ r' = f.r /\ lok' = f.lok /\ rok' = f.rok
    /\ level' = f.level /\ pc' = f.pc /\ ret' = f.ret

(***************************************************************************)
(* Go slices of bytes.  A slice is its backing array buf (whose length is  *)
(* the capacity) and its length len; the bytes past len are whatever the   *)
(* array holds.                                                            *)
(***************************************************************************)
Zeros(n) == [i \in 1..n |-> 0]

\* the size classes of the Go allocator that a small []byte is rounded up to
SizeClasses == {8, 16, 24, 32, 48, 64, 80, 96, 112, 128, 144, 160, 176, 192,
                208, 224, 240, 256}

RoundUpSize(n) ==
    IF n = 0 THEN 0
    ELSE IF \E c \in SizeClasses : c >= n
         THEN CHOOSE c \in SizeClasses : c >= n /\ \A d \in SizeClasses : d >= n => c <= d
         ELSE n

\* the capacity append() gives a slice of capacity oldCap that must hold
\* newLen bytes (runtime.growslice, capacities below the doubling threshold)
GrowCap(oldCap, newLen) ==
    RoundUpSize(IF newLen > 2 * oldCap THEN newLen ELSE 2 * oldCap)

\* append(dst, bytes...)
AppendBytes(sl, bytes) ==
    LET newLen == sl.len + Len(bytes) IN
    IF newLen <= Len(sl.buf)
    THEN [buf |-> SubSeq(sl.buf, 1, sl.len) \o bytes
                    \o SubSeq(sl.buf, newLen + 1, Len(sl.buf)),
          len |-> newLen]
    ELSE [buf |-> SubSeq(sl.buf, 1, sl.len) \o bytes
                    \o Zeros(GrowCap(Len(sl.buf), newLen) - newLen),
          len |-> newLen]

Slice(sl) == SubSeq(sl.buf, 1, sl.len)

Cap(sl) == Len(sl.buf)

\* n bytes written into dst[len:len+16], then dst = dst[:len+n]
WriteInPlace(sl, bytes) ==
    [buf |-> SubSeq(sl.buf, 1, sl.len) \o bytes
               \o SubSeq(sl.buf, sl.len + Len(bytes) + 1, Len(sl.buf)),
     len |-> sl.len + Len(bytes)]

\* a plausible slip: the low byte first
WeightBytesLowFirst(w) == <<w % 256, (w \div 256) % 256>>

\* byte(w>>8), byte(w)
WeightBytes(w) == <<(w \div 256) % 256, w % 256>>

(***************************************************************************)
(* FastIterator900.NextChunk(buf): up to len(buf) bytes of weights, two    *)
(* bytes per weight; nothing once the iterator is exhausted.               *)
(***************************************************************************)
RECURSIVE NextChunk(_, _)
NextChunk(it, room) ==
    IF room < 2 THEN [it |-> it, bytes |-> <<>>]
    ELSE CHOOSE res \in
           {IF ~nx.ok THEN [it |-> nx.it, bytes |-> <<>>]
            ELSE CHOOSE res2 \in
                   {[it |-> rest.it, bytes |-> WeightBytes(nx.w) \o rest.bytes] :
                       rest \in {NextChunk(nx.it, room - 2)}} : TRUE :
               nx \in {Next900(it)}} : TRUE

\* the size of the staging chunk and of the window written in place
ChunkSize == 16

\* math.MaxInt32, the numCodepoints that asks for padding to the capacity
PadToMax == 2147483647

\* c.uca.WeightForSpace()
WeightForSpace == WeightTable["sp"].ces[1][1]

(***************************************************************************)
(* WeightString.  A call is a frame: the arguments (dst as the slice sl,   *)
(* src, numCodepoints), the iterator and the place the call is at; dst0    *)
(* and padding keep dst and numCodepoints as they were passed, weightsLen  *)
(* keeps len(dst) as it was when the last weight had been appended.        *)
(***************************************************************************)
WSCallFrame(c, sl, src, n) ==
    [coll |-> c, sl |-> sl, src |-> src, numCodepoints |-> n,
     dst0 |-> sl, padding |-> n, weightsLen |-> 0,
     it |-> Iterator(<<>>, 0), pc |-> "call"]

\* the weights are all appended: on to the padding at the label
WSWeightsDone(f, label) == [f EXCEPT !.weightsLen = f.sl.len, !.pc = label]

WSReturn(f) == [f EXCEPT !.it = Done(f.it), !.pc = "done"]

\* a plausible slip: the weights are written from the start of dst, dst[:0]
WSEnterFromStart(f) ==
    [f EXCEPT !.it = NewIterator(f.coll, f.src),
              !.sl = [buf |-> f.sl.buf, len |-> 0],
              !.pc = IF f.coll.kind = "uca900" /\ f.coll.fast THEN "chunk"
                     ELSE "weights"]

\* lines 134-137 and 290-291: the iterator, and the path taken
WSEnter(f) ==
    [f EXCEPT !.it = NewIterator(f.coll, f.src),
              !.pc = IF f.coll.kind = "uca900" /\ f.coll.fast THEN "chunk"
                     ELSE "weights"]

\* a plausible slip: the whole chunk is appended, not its first n bytes
WS900ChunkWhole(f) ==
    LET inPlace == Cap(f.sl) - f.sl.len >= ChunkSize
        nc == NextChunk(f.it, ChunkSize)
    IN  IF Len(nc.bytes) <= 0
        THEN WSWeightsDone([f EXCEPT !.it = nc.it], "performPadding")
        ELSE IF inPlace
             THEN [f EXCEPT !.it = nc.it, !.sl = WriteInPlace(f.sl, nc.bytes)]
             ELSE [f EXCEPT !.it = nc.it,
                            !.sl = AppendBytes(f.sl, nc.bytes
                                       \o Zeros(ChunkSize - Len(nc.bytes)))]

\* lines 139-152: one call of NextChunk, in place or through the chunk
WS900Chunk(f) ==
    CHOOSE res \in {
    LET inPlace == Cap(f.sl) - f.sl.len >= ChunkSize
    IN  IF Len(nc.bytes) <= 0
        THEN WSWeightsDone([f EXCEPT !.it = nc.it], "performPadding")
        ELSE IF inPlace
             THEN [f EXCEPT !.it = nc.it, !.sl = WriteInPlace(f.sl, nc.bytes)]
             ELSE [f EXCEPT !.it = nc.it, !.sl = AppendBytes(f.sl, nc.bytes)]
    : nc \in {NextChunk(f.it, ChunkSize)}} : TRUE

\* lines 154-160: one iteration of the general loop
WS900Next(f) ==
    CHOOSE res \in {
    IF ~nx.ok
    THEN WSWeightsDone([f EXCEPT !.it = nx.it], "performPadding")
    ELSE [f EXCEPT !.it = nx.it, !.sl = AppendBytes(f.sl, WeightBytes(nx.w))]
    : nx \in {Next900(f.it)}} : TRUE

\* a plausible slip: the padding takes the capacity as it is, dst[:cap(dst)]
WS900PadReslice(f) ==
    IF f.numCodepoints = PadToMax /\ f.sl.len < Cap(f.sl)
    THEN [f EXCEPT !.sl = [buf |-> f.sl.buf, len |-> Cap(f.sl)]]
    ELSE WSReturn(f)

\* lines 163-170: one iteration of the padding loop, or the return
WS900Pad(f) ==
    IF f.numCodepoints = PadToMax /\ f.sl.len < Cap(f.sl)
    THEN [f EXCEPT !.sl = AppendBytes(f.sl, <<0>>)]
    ELSE WSReturn(f)

\* lines 207-208: utf8mb4_0900_bin appends src itself
WSBinAppend(f) ==
    WSWeightsDone([f EXCEPT !.sl = AppendBytes(f.sl, Bytes(f.src))], "binPadding")

\* lines 209-214: one iteration of the padding loop, or the return
WSBinPad(f) ==
    IF f.numCodepoints = PadToMax /\ f.sl.len < Cap(f.sl)
    THEN [f EXCEPT !.sl = AppendBytes(f.sl, <<0>>)]
    ELSE [f EXCEPT !.pc = "done"]

\* lines 293-299: one iteration of the loop of the legacy WeightString
WSLegacyNext(f) ==
    CHOOSE res \in {
    IF ~nx.ok
    THEN WSWeightsDone([f EXCEPT !.it = nx.it], "legacyPadding")
    ELSE [f EXCEPT !.it = nx.it, !.sl = AppendBytes(f.sl, WeightBytes(nx.w))]
    : nx \in {NextLegacy(f.it)}} : TRUE

\* a plausible slip: the bytes of src are counted, not its codepoints
WSLegacyPadModeByBytes(f) ==
    IF f.numCodepoints > 0
    THEN IF f.numCodepoints = PadToMax
         THEN [f EXCEPT !.pc = "padToMax"]
         ELSE [f EXCEPT !.numCodepoints = @ - ByteLen(f.src), !.pc = "padCount"]
    ELSE WSReturn(f)

\* lines 301-305 and 313: the padding mode of the legacy WeightString
WSLegacyPadMode(f) ==
    IF f.numCodepoints > 0
    THEN IF f.numCodepoints = PadToMax
         THEN [f EXCEPT !.pc = "padToMax"]
         ELSE [f EXCEPT !.numCodepoints = @ - f.it.length, !.pc = "padCount"]
    ELSE WSReturn(f)

\* a plausible slip: the last odd byte of the capacity is left unfilled
WSLegacyPadToMaxEven(f) ==
    IF f.sl.len + 1 < Cap(f.sl)
    THEN [f EXCEPT !.sl = AppendBytes(f.sl, WeightBytes(WeightForSpace))]
    ELSE WSReturn(f)

\* lines 306-311: padding to the capacity with the weight of the space
WSLegacyPadToMax(f) ==
    IF f.sl.len + 1 < Cap(f.sl)
    THEN [f EXCEPT !.sl = AppendBytes(f.sl, WeightBytes(WeightForSpace))]
    ELSE IF f.sl.len < Cap(f.sl)
         THEN WSReturn([f EXCEPT !.sl = AppendBytes(f.sl, <<WeightBytes(WeightForSpace)[1]>>)])
         ELSE WSReturn(f)

\* lines 314-317: padding to numCodepoints codepoints
WSLegacyPadCount(f) ==
    IF f.numCodepoints > 0
    THEN [f EXCEPT !.sl = AppendBytes(f.sl, WeightBytes(WeightForSpace)),
                   !.numCodepoints = @ - 1]
    ELSE WSReturn(f)

\* one step of a call of WeightString
WSStep(f) ==
    CASE f.pc = "call" /\ f.coll.kind = "bin" -> WSBinAppend(f)
      [] f.pc = "call" /\ f.coll.kind # "bin" -> WSEnter(f)
      [] f.pc = "chunk" -> WS900Chunk(f)
      [] f.pc = "weights" /\ f.coll.kind = "uca900" -> WS900Next(f)
      [] f.pc = "weights" /\ f.coll.kind = "legacy" -> WSLegacyNext(f)
      [] f.pc = "performPadding" -> WS900Pad(f)
      [] f.pc = "binPadding" -> WSBinPad(f)
      [] f.pc = "legacyPadding" -> WSLegacyPadMode(f)
      [] f.pc = "padToMax" -> WSLegacyPadToMax(f)
      [] f.pc = "padCount" -> WSLegacyPadCount(f)

RECURSIVE WSRun(_)
WSRun(f) == IF f.pc = "done" THEN f ELSE WSRun(WSStep(f))

\* the slice c.WeightString(dst, src, n) returns
WeightString(c, sl, src, n) == WSRun(WSCallFrame(c, sl, src, n)).sl

VARIABLES wsColl, sl, src, numCodepoints, dst0, padding, weightsLen, it, wsPc

wsVars == <<wsColl, sl, src, numCodepoints, dst0, padding, weightsLen, it, wsPc>>

WSFrame ==
    [coll |-> wsColl, sl |-> sl, src |-> src, numCodepoints |-> numCodepoints,
     dst0 |-> dst0, padding |-> padding, weightsLen |-> weightsLen,
     it |-> it, pc |-> wsPc]

SetWSFrame(ff) ==
    \E f \in {ff} :
    /\ wsColl' = f.coll /\ sl' = f.sl /\ src' = f.src
    /\ numCodepoints' = f.numCodepoints /\ dst0' = f.dst0
    /\ padding' = f.padding /\ weightsLen' = f.weightsLen
    /\ it' = f.it /\ wsPc' = f.pc

(***************************************************************************)
(* WeightStringLen.  The result is the value returned, or the panic.       *)
(***************************************************************************)
\* Go's / and % truncate towards zero
GoDiv(x, y) == IF x >= 0 THEN x \div y ELSE -((-x) \div y)

GoRem(x, y) == IF x >= 0 THEN x % y ELSE -((-x) % y)

\* uca.MaxCollationElementsPerCodepoint
MaxCollationElementsPerCodepoint == 8

\* a plausible slip: the alignment of numBytes is not checked
WeightStringLen900Unchecked(c, numBytes) ==
    LET levels == c.levelsForCompare
        weights == GoDiv(numBytes, 4) * MaxCollationElementsPerCodepoint * levels
    IN  [panic |-> FALSE, value |-> (weights + (levels - 1)) * 2]

\* a plausible slip: the level separators are not counted
WeightStringLen900NoSeparators(c, numBytes) ==
    IF GoRem(numBytes, 4) # 0
    THEN [panic |-> TRUE, value |-> 0]
    ELSE LET levels == c.levelsForCompare
             weights == GoDiv(numBytes, 4) * MaxCollationElementsPerCodepoint * levels
         IN  [panic |-> FALSE, value |-> weights * 2]

\* lines 173-181
WeightStringLen900(c, numBytes) ==
    IF GoRem(numBytes, 4) # 0
    THEN [panic |-> TRUE, value |-> 0]
    ELSE LET levels == c.levelsForCompare
             weights == GoDiv(numBytes, 4) * MaxCollationElementsPerCodepoint * levels
         IN  [panic |-> FALSE, value |-> (weights + (levels - 1)) * 2]

\* lines 217-219
WeightStringLenBin(c, numBytes) == [panic |-> FALSE, value |-> numBytes]

\* lines 324-327
WeightStringLenLegacy(c, numBytes) == [panic |-> FALSE, value |-> numBytes * 8]

WeightStringLen(c, numBytes) ==
    CASE c.kind = "uca900" -> WeightStringLen900(c, numBytes)
      [] c.kind = "legacy" -> WeightStringLenLegacy(c, numBytes)
      [] c.kind = "bin" -> WeightStringLenBin(c, numBytes)

VARIABLES lenColl, numBytes, lenPc, lenRet

lenVars == <<lenColl, numBytes, lenPc, lenRet>>

(***************************************************************************)
(* init().  One collation instance is shared by the goroutines Threads;    *)
(* each calls init() any number of times.  ucainit is a sync.Once: done    *)
(* is its flag, mu the holder of its mutex.  built counts the executions   *)
(* of the constructor, anyReturned tells whether a call has returned.      *)
(***************************************************************************)
VARIABLES initKind, tpc, cleared, ucainitDone, mu,
          uca, weights, tailoring, contractions, reorder, built, anyReturned

onceVars == <<initKind, tpc, cleared, ucainitDone, mu,
              uca, weights, tailoring, contractions, reorder, built, anyReturned>>

Threads == 1..NumThreads

\* a plausible slip: reorder is not cleared
ClearedFieldsNoReorder(kind) ==
    IF kind = "uca900"
    THEN <<"weights", "contractions", "tailoring">>
    ELSE <<"weights", "tailoring", "contractions">>

\* lines 56-59 and 238-240: the fields the function passed to Do sets to nil
ClearedFields(kind) ==
    IF kind = "uca900"
    THEN <<"weights", "contractions", "tailoring", "reorder">>
    ELSE <<"weights", "tailoring", "contractions">>

\* a plausible slip: a flag tested and set without sync.Once
OnceDoUnguarded(done) == IF done = 0 THEN "construct" ELSE "returned"

\* lines 52 and 236: c.ucainit.Do: the flag is read first without the mutex
OnceDo(done) == IF done = 0 THEN "lock" ELSE "returned"

OnceIdle ==
    /\ initKind = "uca900" /\ tpc = [t \in Threads |-> "idle"]
    /\ cleared = 0 /\ ucainitDone = 0 /\ mu = 0
    /\ uca = "nil" /\ weights = "set" /\ tailoring = "set"
    /\ contractions = "set" /\ reorder = "set"
    /\ built = 0 /\ anyReturned = FALSE

vars == <<collateVars, wsVars, lenVars, onceVars>>

\* the calls that are not part of a specification stay as they are
CollateIdle ==
    /\ coll = [kind |-> "bin", levelsForCompare |-> 1, fast |-> FALSE]
    /\ left = <<>> /\ right = <<>> /\ rightIsPrefix = FALSE
    /\ itleft = Iterator(<<>>, 0) /\ itright = Iterator(<<>>, 0)
    /\ l = 0 /\ r = 0 /\ lok = FALSE /\ rok = FALSE
    /\ level = 0 /\ pc = "idle" /\ ret = 0

WSIdle ==
    /\ wsColl = [kind |-> "bin", levelsForCompare |-> 1, fast |-> FALSE]
    /\ sl = [buf |-> <<>>, len |-> 0] /\ dst0 = [buf |-> <<>>, len |-> 0]
    /\ src = <<>> /\ numCodepoints = 0 /\ padding = 0 /\ weightsLen = 0
    /\ it = Iterator(<<>>, 0) /\ wsPc = "idle"

LenIdle ==
    /\ lenColl = [kind |-> "bin", levelsForCompare |-> 1, fast |-> FALSE]
    /\ numBytes = 0 /\ lenPc = "idle" /\ lenRet = [panic |-> FALSE, value |-> 0]

(***************************************************************************)
(* The specification of Collate: any collation, any two operands, either   *)
(* value of the prefix flag.                                               *)
(***************************************************************************)
CollateCodepoints == {"a", "A", "zh", "ctl", "acute"}

CollateCollations == {c \in Collations : ~c.fast}

CollateOperands ==
    {p \in SeqsUpTo(CollateCodepoints, MaxTotalLen)
           \X SeqsUpTo(CollateCodepoints, MaxTotalLen) :
        Len(p[1]) + Len(p[2]) <= MaxTotalLen}

Init ==
    /\ WSIdle /\ LenIdle /\ OnceIdle
    /\ \E c \in CollateCollations, ops \in CollateOperands, p \in BOOLEAN :
        /\ coll = c /\ left = ops[1] /\ right = ops[2] /\ rightIsPrefix = p
        /\ itleft = Iterator(<<>>, 0) /\ itright = Iterator(<<>>, 0)
        /\ l = 0 /\ r = 0 /\ lok = FALSE /\ rok = FALSE
        /\ level = 0 /\ pc = "call" /\ ret = 0

CollateCall ==
    /\ pc = "call" /\ coll.kind # "bin"
    /\ SetFrame(CollateEnter(Frame))
    /\ UNCHANGED <<wsVars, lenVars, onceVars>>

CollateBinCall ==
    /\ pc = "call" /\ coll.kind = "bin"
    /\ SetFrame(CollateBin(Frame))
    /\ UNCHANGED <<wsVars, lenVars, onceVars>>

Collate900NextLevel ==
    /\ pc = "nextLevel"
    /\ SetFrame(Collate900Loop(Frame))
    /\ UNCHANGED <<wsVars, lenVars, onceVars>>

Collate900Resolve ==
    /\ pc = "switch"
    /\ SetFrame(Collate900Switch(Frame))
    /\ UNCHANGED <<wsVars, lenVars, onceVars>>

CollateLegacyNext ==
    /\ pc = "loop"
    /\ SetFrame(CollateLegacyLoop(Frame))
    /\ UNCHANGED <<wsVars, lenVars, onceVars>>

Next ==
    \/ CollateCall
    \/ CollateBinCall
    \/ Collate900NextLevel
    \/ Collate900Resolve
    \/ CollateLegacyNext

Spec == Init /\ [][Next]_vars

(***************************************************************************)
(* The specification of WeightString: any collation, any src, a dst that   *)
(* holds some bytes already and has spare capacity below, at and above the *)
(* chunk size, the spare capacity holding stale bytes.                     *)
(***************************************************************************)
WSCodepoints == {"a", "zh", "lig"}

SpareCaps == {0, 3, 16, 40}

DstSlices ==
    {[buf |-> [i \in 1..(n + sp) |-> IF i <= n THEN 90 ELSE 170], len |-> n] :
        n \in 0..MaxDstLen, sp \in SpareCaps}

NumCodepoints == (0..MaxNumCodepoints) \cup {PadToMax}

WSInit ==
    /\ CollateIdle /\ LenIdle /\ OnceIdle
    /\ \E c \in Collations, d \in DstSlices,
          s \in SeqsUpTo(WSCodepoints, MaxSrcLen), n \in NumCodepoints :
        /\ wsColl = c /\ sl = d /\ dst0 = d /\ src = s
        /\ numCodepoints = n /\ padding = n /\ weightsLen = 0
        /\ it = Iterator(<<>>, 0) /\ wsPc = "call"

WSCall ==
    /\ wsPc = "call" /\ wsColl.kind # "bin"
    /\ SetWSFrame(WSEnter(WSFrame))
    /\ UNCHANGED <<collateVars, lenVars, onceVars>>

WSBinCall ==
    /\ wsPc = "call" /\ wsColl.kind = "bin"
    /\ SetWSFrame(WSBinAppend(WSFrame))
    /\ UNCHANGED <<collateVars, lenVars, onceVars>>

WS900NextChunk ==
    /\ wsPc = "chunk"
    /\ SetWSFrame(WS900Chunk(WSFrame))
    /\ UNCHANGED <<collateVars, lenVars, onceVars>>

WS900NextWeight ==
    /\ wsPc = "weights" /\ wsColl.kind = "uca900"
    /\ SetWSFrame(WS900Next(WSFrame))
    /\ UNCHANGED <<collateVars, lenVars, onceVars>>

WS900PerformPadding ==
    /\ wsPc = "performPadding"
    /\ SetWSFrame(WS900Pad(WSFrame))
    /\ UNCHANGED <<collateVars, lenVars, onceVars>>

WSBinPadding ==
    /\ wsPc = "binPadding"
    /\ SetWSFrame(WSBinPad(WSFrame))
    /\ UNCHANGED <<collateVars, lenVars, onceVars>>

WSLegacyNextWeight ==
    /\ wsPc = "weights" /\ wsColl.kind = "legacy"
    /\ SetWSFrame(WSLegacyNext(WSFrame))
    /\ UNCHANGED <<collateVars, lenVars, onceVars>>

WSLegacyPadding ==
    /\ wsPc = "legacyPadding"
    /\ SetWSFrame(WSLegacyPadMode(WSFrame))
    /\ UNCHANGED <<collateVars, lenVars, onceVars>>

WSLegacyPaddingToMax ==
    /\ wsPc = "padToMax"
    /\ SetWSFrame(WSLegacyPadToMax(WSFrame))
    /\ UNCHANGED <<collateVars, lenVars, onceVars>>

WSLegacyPaddingCount ==
    /\ wsPc = "padCount"
    /\ SetWSFrame(WSLegacyPadCount(WSFrame))
    /\ UNCHANGED <<collateVars, lenVars, onceVars>>

WSNext ==
    \/ WSCall
    \/ WSBinCall
    \/ WS900NextChunk
    \/ WS900NextWeight
    \/ WS900PerformPadding
    \/ WSBinPadding
    \/ WSLegacyNextWeight
    \/ WSLegacyPadding
    \/ WSLegacyPaddingToMax
    \/ WSLegacyPaddingCount

SpecWS == WSInit /\ [][WSNext]_vars

(***************************************************************************)
(* The specification of WeightStringLen: any collation, any numBytes.      *)
(***************************************************************************)
LenInit ==
    /\ CollateIdle /\ WSIdle /\ OnceIdle
    /\ \E c \in Collations, n \in (-MaxNumBytes)..MaxNumBytes :
        /\ lenColl = c /\ numBytes = n
        /\ lenPc = "call" /\ lenRet = [panic |-> FALSE, value |-> 0]

WeightStringLen900Call ==
    /\ lenPc = "call" /\ lenColl.kind = "uca900"
    /\ lenRet' = WeightStringLen900(lenColl, numBytes)
    /\ lenPc' = IF lenRet'.panic THEN "panic" ELSE "done"
    /\ UNCHANGED <<lenColl, numBytes, collateVars, wsVars, onceVars>>

WeightStringLenLegacyCall ==
    /\ lenPc = "call" /\ lenColl.kind = "legacy"
    /\ lenRet' = WeightStringLenLegacy(lenColl, numBytes)
    /\ lenPc' = IF lenRet'.panic THEN "panic" ELSE "done"
    /\ UNCHANGED <<lenColl, numBytes, collateVars, wsVars, onceVars>>

WeightStringLenBinCall ==
    /\ lenPc = "call" /\ lenColl.kind = "bin"
    /\ lenRet' = WeightStringLenBin(lenColl, numBytes)
    /\ lenPc' = IF lenRet'.panic THEN "panic" ELSE "done"
    /\ UNCHANGED <<lenColl, numBytes, collateVars, wsVars, onceVars>>

LenNext ==
    \/ WeightStringLen900Call
    \/ WeightStringLenLegacyCall
    \/ WeightStringLenBinCall

SpecLen == LenInit /\ [][LenNext]_vars

(***************************************************************************)
(* A call that runs.  A caller makes one call of Collate or of             *)
(* WeightString with any arguments; the call then takes its next step as   *)
(* long as it has one.                                                     *)
(***************************************************************************)
RunInit == CollateIdle /\ WSIdle /\ LenIdle /\ OnceIdle

CollateInvoke ==
    /\ pc = "idle" /\ wsPc = "idle"
    /\ \E c \in CollateCollations, ops \in CollateOperands, p \in BOOLEAN :
        SetFrame(CallFrame(c, ops[1], ops[2], p))
    /\ UNCHANGED <<wsVars, lenVars, onceVars>>

\* dst is empty, with any spare capacity; numCodepoints asks for no padding,
\* for padding to a number of codepoints or for padding to the capacity
WSInvoke ==
    /\ pc = "idle" /\ wsPc = "idle"
    /\ \E c \in Collations, d \in {e \in DstSlices : e.len = 0},
          s \in SeqsUpTo(WSCodepoints, MaxSrcLen),
          n \in {0, MaxNumCodepoints, PadToMax} :
        SetWSFrame(WSCallFrame(c, d, s, n))
    /\ UNCHANGED <<collateVars, lenVars, onceVars>>

RunStep == Next \/ WSNext

RunNext ==
    \/ CollateInvoke
    \/ WSInvoke
    \/ RunStep

SpecRun == RunInit /\ [][RunNext]_vars /\ WF_vars(RunStep)

(***************************************************************************)
(* The specification of init(): the goroutines call init() of one 900 or   *)
(* legacy collation, interleaved in any way.                               *)
(***************************************************************************)
OnceInit ==
    /\ CollateIdle /\ WSIdle /\ LenIdle
    /\ initKind \in {"uca900", "legacy"}
    /\ tpc = [t \in Threads |-> "idle"]
    /\ cleared = 0 /\ ucainitDone = 0 /\ mu = 0
    /\ uca = "nil" /\ weights = "set" /\ tailoring = "set"
    /\ contractions = "set"
    /\ reorder = IF initKind = "uca900" THEN "set" ELSE "nil"
    /\ built = 0 /\ anyReturned = FALSE

OnceFields == <<uca, weights, tailoring, contractions, reorder, built, cleared>>

\* init() is called: Once.Do reads the flag
InitCall(t) ==
    /\ tpc[t] = "idle"
    /\ tpc' = [tpc EXCEPT ![t] = OnceDo(ucainitDone)]
    /\ UNCHANGED <<initKind, ucainitDone, mu, OnceFields, anyReturned>>
    /\ UNCHANGED <<collateVars, wsVars, lenVars>>

\* Once.doSlow: the mutex is taken
OnceLock(t) ==
    /\ tpc[t] = "lock" /\ mu = 0
    /\ mu' = t
    /\ tpc' = [tpc EXCEPT ![t] = "check"]
    /\ UNCHANGED <<initKind, ucainitDone, OnceFields, anyReturned>>
    /\ UNCHANGED <<collateVars, wsVars, lenVars>>

\* Once.doSlow: the flag is read again under the mutex
OnceCheck(t) ==
    /\ tpc[t] = "check"
    /\ tpc' = [tpc EXCEPT ![t] = IF ucainitDone = 0 THEN "construct" ELSE "unlock"]
    /\ UNCHANGED <<initKind, ucainitDone, mu, OnceFields, anyReturned>>
    /\ UNCHANGED <<collateVars, wsVars, lenVars>>

\* lines 53 and 237: c.uca = uca.NewCollation(...)
Construct(t) ==
    /\ tpc[t] = "construct"
    /\ uca' = IF weights = "set" /\ tailoring = "set" /\ contractions = "set"
              THEN "built" ELSE "builtFromNil"
    /\ built' = built + 1
    /\ cleared' = 0
    /\ tpc' = [tpc EXCEPT ![t] = "clear"]
    /\ UNCHANGED <<initKind, ucainitDone, mu, weights, tailoring, contractions,
                   reorder, anyReturned>>
    /\ UNCHANGED <<collateVars, wsVars, lenVars>>

\* lines 56-59 and 238-240: the next field is set to nil
ClearField(t) ==
    /\ tpc[t] = "clear" /\ cleared < Len(ClearedFields(initKind))
    /\ LET fld == ClearedFields(initKind)[cleared + 1] IN
        /\ weights' = IF fld = "weights" THEN "nil" ELSE weights
        /\ tailoring' = IF fld = "tailoring" THEN "nil" ELSE tailoring
        /\ contractions' = IF fld = "contractions" THEN "nil" ELSE contractions
        /\ reorder' = IF fld = "reorder" THEN "nil" ELSE reorder
    /\ cleared' = cleared + 1
    /\ UNCHANGED <<initKind, tpc, ucainitDone, mu, uca, built, anyReturned>>
    /\ UNCHANGED <<collateVars, wsVars, lenVars>>

\* Once.doSlow: the function has returned, the flag is stored
OnceStore(t) ==
    /\ tpc[t] = "clear" /\ cleared = Len(ClearedFields(initKind))
    /\ ucainitDone' = 1
    /\ tpc' = [tpc EXCEPT ![t] = "unlock"]
    /\ UNCHANGED <<initKind, mu, OnceFields, anyReturned>>
    /\ UNCHANGED <<collateVars, wsVars, lenVars>>

\* Once.doSlow: the mutex is released
OnceUnlock(t) ==
    /\ tpc[t] = "unlock"
    /\ mu' = IF mu = t THEN 0 ELSE mu
    /\ tpc' = [tpc EXCEPT ![t] = "returned"]
    /\ UNCHANGED <<initKind, ucainitDone, OnceFields, anyReturned>>
    /\ UNCHANGED <<collateVars, wsVars, lenVars>>

\* init() returns to its caller
InitReturn(t) ==
    /\ tpc[t] = "returned"
    /\ anyReturned' = TRUE
    /\ tpc' = [tpc EXCEPT ![t] = "idle"]
    /\ UNCHANGED <<initKind, ucainitDone, mu, OnceFields>>
    /\ UNCHANGED <<collateVars, wsVars, lenVars>>

OnceNext ==
    \/ \E t \in Threads : InitCall(t)
    \/ \E t \in Threads : OnceLock(t)
    \/ \E t \in Threads : OnceCheck(t)
    \/ \E t \in Threads : Construct(t)
    \/ \E t \in Threads : ClearField(t)
    \/ \E t \in Threads : OnceStore(t)
    \/ \E t \in Threads : OnceUnlock(t)
    \/ \E t \in Threads : InitReturn(t)

SpecInit == OnceInit /\ [][OnceNext]_vars

(***************************************************************************)
(* What the claims speak of.                                               *)
(***************************************************************************)
\* the non-zero weights of a string at one level, read off the table
RECURSIVE LevelWeights(_, _)
LevelWeights(s, k) ==
    IF s = <<>> \/ Undecodable(Head(s)) THEN <<>>
    ELSE SelectSeq(CodepointWeights(Head(s), k), LAMBDA w : w # 0)
             \o LevelWeights(Tail(s), k)

\* every codepoint of s is ignorable at the levels below n
Ignorable(s, n) ==
    \A i \in 1..Len(s) : \A k \in 0..(n - 1) :
        \A j \in 1..Len(WeightTable[s[i]].ces) : WeightTable[s[i]].ces[j][k + 1] = 0

IsUCA(c) == c.kind \in {"uca900", "legacy"}

CollateDone == pc = "done"

(***************************************************************************)
(* C1: antisymmetry.  When a call Collate(left, right, false) of a 900 or  *)
(* legacy collation has returned, Collate(right, left, false) returns a    *)
(* value of the opposite sign: zero for zero, positive for negative,       *)
(* negative for positive.                                                  *)
(***************************************************************************)
C1_Antisymmetry ==
    (CollateDone /\ IsUCA(coll) /\ ~rightIsPrefix)
        => Sign(ret) = -Sign(Collate(coll, right, left, FALSE))

C1_Witness ==
    /\ CollateDone /\ coll.kind = "uca900" /\ ~rightIsPrefix
    /\ ret < 0 /\ Collate(coll, right, left, FALSE) > 0

(***************************************************************************)
(* C3: reflexivity.  Collate(a, a, false) returns exactly 0 for every      *)
(* collation: 900 at any compare depth, legacy and binary.                 *)
(***************************************************************************)
C3_Reflexivity ==
    (CollateDone /\ left = right /\ ~rightIsPrefix) => ret = 0

C3_Witness ==
    /\ CollateDone /\ left = right /\ ~rightIsPrefix /\ Len(left) > 0
    /\ coll.kind = "uca900" /\ coll.levelsForCompare = 3 /\ ret = 0

(***************************************************************************)
(* C5: prefix semantics.  For a 900 collation, when right is left followed *)
(* by codepoints that are ignorable at every compared level,               *)
(* Collate(left, right, true) returns 0: a match, and so <= 0.             *)
(***************************************************************************)
IgnorableExtension(a, b, n) ==
    /\ IsPrefixOf(a, b)
    /\ Ignorable(SubSeq(b, Len(a) + 1, Len(b)), n)

C5_PrefixIgnorableSuffix ==
    (/\ CollateDone /\ coll.kind = "uca900" /\ rightIsPrefix
     /\ IgnorableExtension(left, right, coll.levelsForCompare))
        => ret = 0

C5_Witness ==
    /\ CollateDone /\ coll.kind = "uca900" /\ rightIsPrefix
    /\ IgnorableExtension(left, right, coll.levelsForCompare)
    /\ Len(left) > 0 /\ Len(right) > Len(left) /\ ret = 0

(***************************************************************************)
(* C10: compare depth.  A 900 Collate without the prefix flag returns 0    *)
(* exactly when the two operands have the same weights at every level      *)
(* below levelsForCompare, whatever the levels above hold; and the         *)
(* comparison is at a level k > 0 only if the weights of every level       *)
(* below k compared equal (with the prefix flag: the right operand's were  *)
(* a prefix of the left operand's).                                        *)
(***************************************************************************)
SameWeightsBelow(a, b, n) ==
    \A k \in 0..(n - 1) : LevelWeights(a, k) = LevelWeights(b, k)

RECURSIVE Weights900(_, _, _)
Weights900(s, k, n) ==
    IF k + 1 >= n THEN LevelWeights(s, k)
    ELSE LevelWeights(s, k) \o <<0>> \o Weights900(s, k + 1, n)

RECURSIVE BigEndian(_)
BigEndian(ws) ==
    IF ws = <<>> THEN <<>>
    ELSE <<Head(ws) \div 256, Head(ws) % 256>> \o BigEndian(Tail(ws))

\* the bytes WeightString is to append for src, padding apart
ExpectedBytes(c, s) ==
    CASE c.kind = "uca900" -> BigEndian(Weights900(s, 0, c.levelsForCompare))
      [] c.kind = "legacy" -> BigEndian(LevelWeights(s, 0))
      [] c.kind = "bin" -> Bytes(s)

\* an empty buffer of capacity n whose array holds stale bytes
EmptyBuffer(n) == [buf |-> [i \in 1..n |-> 170], len |-> 0]

Max(x, y) == IF x >= y THEN x ELSE y

WSDone == wsPc = "done"

(***************************************************************************)
(* C2: the two comparison routes of a 900 collation agree.  The sign of    *)
(* Collate(left, right, false) is the bytewise order of the weight strings *)
(* of left and right, both made with PadToMax in empty buffers of one      *)
(* capacity that holds every weight of either, by the chunk path or by the *)
(* general path.                                                           *)
(***************************************************************************)
PaddedKeys(c, a, b) ==
    LET need == Max(Len(ExpectedBytes(c, a)), Len(ExpectedBytes(c, b))) IN
    {<<Slice(WeightString(d, EmptyBuffer(need + e), a, PadToMax)),
       Slice(WeightString(d, EmptyBuffer(need + e), b, PadToMax))>> :
        d \in {[c EXCEPT !.fast = x] : x \in BOOLEAN}, e \in {0, 1, ChunkSize}}

C2_CollateAgreesWithWeightString ==
    (CollateDone /\ coll.kind = "uca900" /\ ~rightIsPrefix)
        => \A ks \in PaddedKeys(coll, left, right) :
              /\ Len(ks[1]) = Len(ks[2])
              /\ Sign(ret) = BytesCompare(ks[1], ks[2])

C2_Witness ==
    /\ CollateDone /\ coll.kind = "uca900" /\ ~rightIsPrefix
    /\ coll.levelsForCompare = 3
    /\ LevelWeights(left, 0) = LevelWeights(right, 0)
    /\ ret > 0
    /\ \A ks \in PaddedKeys(coll, left, right) : BytesCompare(ks[1], ks[2]) = 1

(***************************************************************************)
(* C6: length bound.  For a 900 collation and a src whose byte length is a *)
(* multiple of 4, the weight bytes of WeightString(nil, src, PadToMax),    *)
(* one 2-byte separator per level boundary included, are at most           *)
(* WeightStringLen(len(src)).                                              *)
(***************************************************************************)
C6_LengthBound ==
    (/\ WSDone /\ wsColl.kind = "uca900"
     /\ Cap(dst0) = 0 /\ padding = PadToMax
     /\ ByteLen(src) % 4 = 0)
        => weightsLen <= WeightStringLen900(wsColl, ByteLen(src)).value

\* C6 with numBytes the byte length the codepoints of src can have at most,
\* 4 bytes each, in place of the byte length src has.
C6_LengthBoundPerCodepoint ==
    (/\ WSDone /\ wsColl.kind = "uca900"
     /\ Cap(dst0) = 0 /\ padding = PadToMax)
        => weightsLen <= WeightStringLen900(wsColl, 4 * Len(src)).value

\* the bound is reached: every codepoint of src has the most collation
\* elements, none of them ignorable at any level
C6_Witness ==
    /\ WSDone /\ wsColl.kind = "uca900" /\ wsColl.levelsForCompare = 3
    /\ Cap(dst0) = 0 /\ padding = PadToMax
    /\ src # <<>>
    /\ weightsLen = WeightStringLen900(wsColl, 4 * Len(src)).value

(***************************************************************************)
(* C7: WeightStringLen of a 900 collation panics exactly when numBytes is  *)
(* not a multiple of 4 and returns a value otherwise; WeightStringLen of   *)
(* the legacy and binary collations always returns a value.                *)
(***************************************************************************)
MultipleOf4(n) == \E k \in (-MaxNumBytes - 1)..(MaxNumBytes + 1) : n = 4 * k

C7_WeightStringLenPanics ==
    /\ lenPc \in {"done", "panic"} =>
          IF lenColl.kind = "uca900"
          THEN /\ lenPc = "panic" <=> ~MultipleOf4(numBytes)
               /\ lenRet.panic <=> lenPc = "panic"
          ELSE lenPc = "done" /\ ~lenRet.panic

C7_Witness ==
    lenPc = "panic" /\ lenColl.kind = "uca900" /\ numBytes = 6

(***************************************************************************)
(* C8 as stated: with PadToMax every collation returns a slice as long as  *)
(* its capacity in which every byte after the weights of src is 0.         *)
(***************************************************************************)
PadStart == dst0.len + Len(ExpectedBytes(wsColl, src))

C8_ZeroPadded ==
    (WSDone /\ padding = PadToMax)
        => /\ sl.len = Cap(sl)
           /\ \A i \in (PadStart + 1)..sl.len : sl.buf[i] = 0

(***************************************************************************)
(* C8 as amended: with PadToMax every collation returns a slice as long as *)
(* its capacity; after the weights of src the 900 and binary collations    *)
(* hold 0 bytes, the legacy collations the two bytes of the weight of the  *)
(* space, high byte first, over and over, cut after the high byte when the *)
(* room left is odd.                                                       *)
(***************************************************************************)
C8_PaddedToCapacity ==
    (WSDone /\ padding = PadToMax)
        => /\ sl.len = Cap(sl)
           /\ \A i \in (PadStart + 1)..sl.len :
                sl.buf[i] = IF wsColl.kind # "legacy" THEN 0
                            ELSE IF (i - PadStart) % 2 = 1
                                 THEN WeightForSpace \div 256
                                 ELSE WeightForSpace % 256

C8_Witness ==
    /\ WSDone /\ padding = PadToMax /\ wsColl.kind = "legacy"
    /\ src # <<>> /\ dst0.len > 0
    /\ sl.len = Cap(sl) /\ (sl.len - PadStart) % 2 = 1 /\ sl.len - PadStart > 2
    /\ sl.buf[sl.len] = WeightForSpace \div 256

(***************************************************************************)
(* C9 as stated: what the chunk path of a 900 collation returns, padding   *)
(* included, is what the general path returns for the same dst, src and    *)
(* numCodepoints.                                                          *)
(***************************************************************************)
GeneralResult == WeightString([wsColl EXCEPT !.fast = FALSE], dst0, src, padding)

C9_FastPathSameResult ==
    (WSDone /\ wsColl.kind = "uca900" /\ wsColl.fast)
        => Slice(sl) = Slice(GeneralResult)

(***************************************************************************)
(* C9 as amended: the chunk path appends to dst the same weight bytes as   *)
(* the general path; the whole result, padding included, is the same when  *)
(* numCodepoints is not PadToMax or when the spare capacity of dst holds   *)
(* all the weight bytes, so that neither path reallocates.                 *)
(***************************************************************************)
C9_FastPathSameWeights ==
    (WSDone /\ wsColl.kind = "uca900" /\ wsColl.fast)
        => /\ IsPrefixOf(Slice(dst0) \o ExpectedBytes(wsColl, src), Slice(sl))
           /\ IsPrefixOf(Slice(dst0) \o ExpectedBytes(wsColl, src), Slice(GeneralResult))
           /\ (padding # PadToMax \/ PadStart <= Cap(dst0))
                 => Slice(sl) = Slice(GeneralResult)

C9_Witness ==
    /\ WSDone /\ wsColl.kind = "uca900" /\ wsColl.fast
    /\ padding = PadToMax
    /\ Cap(dst0) - dst0.len > ChunkSize /\ Len(ExpectedBytes(wsColl, src)) > ChunkSize
    /\ PadStart < Cap(dst0)
    /\ Slice(sl) = Slice(GeneralResult)

(***************************************************************************)
(* C4: once-only initialisation.  However the init() calls of the          *)
(* goroutines interleave, the constructor runs at most once and runs on    *)
(* the construction inputs; a call that is about to return, and every      *)
(* state after some call has returned, sees the constructor run exactly    *)
(* once, uca set, and weights, tailoring, contractions and reorder nil.    *)
(***************************************************************************)
Initialised ==
    /\ built = 1 /\ uca = "built" /\ ucainitDone = 1
    /\ weights = "nil" /\ tailoring = "nil" /\ contractions = "nil"
    /\ reorder = "nil"

C4_InitOnce ==
    /\ built <= 1
    /\ uca # "builtFromNil"
    /\ (\E t \in Threads : tpc[t] = "returned") => Initialised
    /\ anyReturned => Initialised

C4_Witness ==
    /\ anyReturned /\ Initialised /\ initKind = "uca900"
    /\ \E t \in Threads : tpc[t] = "check"

(***************************************************************************)
(* C11: determinism and buffer reuse.  A call of WeightString with the     *)
(* same collation, src and numCodepoints and a dst of the same length,     *)
(* contents and capacity returns the same bytes whatever the spare         *)
(* capacity of dst holds: what it held before, other bytes, or the bytes   *)
(* an earlier call with this buffer wrote there.                           *)
(***************************************************************************)
StaleBytes == {0, 255}

\* the buffer of the finished call as its caller holds it afterwards, dst
\* again of its first length: the spare capacity holds the first bytes the
\* call wrote and some stale byte after them
ReusedBuffers ==
    {[buf |-> [i \in 1..Cap(dst0) |->
                  IF i <= dst0.len THEN dst0.buf[i]
                  ELSE IF i <= k /\ i <= sl.len THEN sl.buf[i] ELSE b],
      len |-> dst0.len] :
        k \in {dst0.len, Min(Cap(dst0), weightsLen), Min(Cap(dst0), sl.len)},
        b \in StaleBytes \cup {170}}

RECURSIVE SpaceWeights(_)
SpaceWeights(n) ==
    IF n <= 0 THEN <<>> ELSE BigEndian(<<WeightForSpace>>) \o SpaceWeights(n - 1)

C12_LegacyNumericPadding ==
    /\ (WSDone /\ wsColl.kind = "legacy" /\ padding > 0 /\ padding # PadToMax)
          => Slice(sl) = Slice(dst0) \o ExpectedBytes(wsColl, src)
                           \o SpaceWeights(Max(0, padding - Len(src)))
    /\ (WSDone /\ wsColl.kind = "uca900" /\ padding # PadToMax)
          => Slice(sl) = Slice(dst0) \o ExpectedBytes(wsColl, src)

\* a src of one codepoint that is two bytes long, padded to two codepoints
C12_Witness ==
    /\ WSDone /\ wsColl.kind = "legacy" /\ padding = 2
    /\ Len(src) = 1 /\ ByteLen(src) = 2
    /\ Slice(sl) = Slice(dst0) \o ExpectedBytes(wsColl, src) \o SpaceWeights(1)

(***************************************************************************)
(* C13: termination.  Every call of Collate, of any collation, on any two  *)
(* operands and with either prefix flag, and every call of WeightString,   *)
(* on the chunk path, the general path, the legacy and the binary path,    *)
(* for any src, dst and numCodepoints, returns after finitely many steps.  *)
(***************************************************************************)
C13_Termination ==
    /\ (pc = "call") ~> CollateDone
    /\ (wsPc = "call") ~> WSDone

\* a call of Collate that went through goto nextLevel and SkipLevel
C13_Witness ==
    /\ CollateDone /\ coll.kind = "uca900" /\ coll.levelsForCompare = 3
    /\ rightIsPrefix /\ level = 3 /\ Len(left) > Len(right) /\ right # <<>>

(***************************************************************************)
(* C14: iterator release.  A call of Collate of a 900 or legacy collation  *)
(* acquires two iterators, one over each operand, a call of WeightString   *)
(* one over src; none is released while the call runs, and when the call   *)
(* has returned, by whichever return, Done() has been called exactly once  *)
(* on each: as many iterators are released as were acquired.               *)
(***************************************************************************)
\* an iterator that c.uca.Iterator() gave out (the locals start as no iterator)
Acquired(i) == i.maxLevel > 0

C14_IteratorRelease ==
    /\ pc \in {"nextLevel", "switch", "loop"}
          => /\ Acquired(itleft) /\ Acquired(itright)
             /\ itleft.released = 0 /\ itright.released = 0
    /\ CollateDone
          => /\ Acquired(itleft) = IsUCA(coll) /\ Acquired(itright) = IsUCA(coll)
             /\ itleft.released = (IF Acquired(itleft) THEN 1 ELSE 0)
             /\ itright.released = (IF Acquired(itright) THEN 1 ELSE 0)
             /\ IsUCA(coll) => itleft.input = left /\ itright.input = right
    /\ wsPc \notin {"idle", "call", "done"} /\ IsUCA(wsColl)
          => Acquired(it) /\ it.released = 0
    /\ WSDone
          => /\ Acquired(it) = IsUCA(wsColl)
             /\ it.released = (IF Acquired(it) THEN 1 ELSE 0)

\* the early return -int(r) of the prefix case, after SkipLevel
C14_Witness ==
    /\ CollateDone /\ coll.kind = "uca900" /\ rightIsPrefix
    /\ itleft.level >= coll.levelsForCompare /\ itleft.pos = 1
    /\ Len(left) > Len(right)
    /\ itleft.released = 1 /\ itright.released = 1

(***************************************************************************)
(* C15: polarity.  For a 900 collation without the prefix flag, let k be   *)
(* the first compared level at which the weights of the operands differ.   *)
(* If the weights of left at level k run out first (they are a prefix of   *)
(* those of right) Collate returns -1; if those of right run out first it  *)
(* returns 1; if both have a weight where they first differ it returns the *)
(* weight of left minus the weight of right.                               *)
(***************************************************************************)
\* the compared levels at which the weights of a and b differ
DifferingLevels(c, a, b) ==
    {k \in 0..(c.levelsForCompare - 1) : LevelWeights(a, k) # LevelWeights(b, k)}

FirstDifferingLevel(c, a, b) ==
    CHOOSE k \in DifferingLevels(c, a, b) : \A j \in DifferingLevels(c, a, b) : k <= j

\* the first place at which two sequences, neither a prefix of the other, differ
FirstDifference(x, y) ==
    CHOOSE i \in 1..Min(Len(x), Len(y)) :
        x[i] # y[i] /\ \A j \in 1..(i - 1) : x[j] = y[j]

C15_Polarity ==
    (/\ CollateDone /\ coll.kind = "uca900" /\ ~rightIsPrefix
     /\ DifferingLevels(coll, left, right) # {})
        => LET k  == FirstDifferingLevel(coll, left, right)
               lw == LevelWeights(left, k)
               rw == LevelWeights(right, k)
           IN  IF IsPrefixOf(lw, rw) THEN ret = -1
               ELSE IF IsPrefixOf(rw, lw) THEN ret = 1
               ELSE ret = lw[FirstDifference(lw, rw)] - rw[FirstDifference(lw, rw)]

\* the operands agree at level 0 and left runs out first at level 1
C15_Witness ==
    /\ CollateDone /\ coll.kind = "uca900" /\ ~rightIsPrefix
    /\ coll.levelsForCompare = 3
    /\ FirstDifferingLevel(coll, left, right) = 1
    /\ LevelWeights(left, 1) # <<>>
    /\ IsPrefixOf(LevelWeights(left, 1), LevelWeights(right, 1))
    /\ ret = -1

(***************************************************************************)
(* C16 as stated: a legacy collation with the prefix flag returns 0 as     *)
(* soon as one side is exhausted after equal weights, whichever side it    *)
(* is.                                                                     *)
(***************************************************************************)
C16_PrefixEitherSide ==
    (/\ CollateDone /\ coll.kind = "legacy" /\ rightIsPrefix
     /\ \/ IsPrefixOf(LevelWeights(left, 0), LevelWeights(right, 0))
        \/ IsPrefixOf(LevelWeights(right, 0), LevelWeights(left, 0)))
        => ret = 0

(***************************************************************************)
(* C16 as amended: a legacy collation with the prefix flag returns 0 when  *)
(* right is exhausted after equal weights (the weights of right are a      *)
(* prefix of those of left); when left is exhausted first it returns minus *)
(* the next weight of right, a negative number.                            *)
(***************************************************************************)
C16_PrefixRightSide ==
    (CollateDone /\ coll.kind = "legacy" /\ rightIsPrefix)
        => LET lw == LevelWeights(left, 0)
               rw == LevelWeights(right, 0)
           IN  /\ IsPrefixOf(rw, lw) => ret = 0
               /\ (IsPrefixOf(lw, rw) /\ lw # rw) => ret = -rw[Len(lw) + 1] /\ ret < 0

\* right is exhausted while left still has weights
C16_Witness ==
    /\ CollateDone /\ coll.kind = "legacy" /\ rightIsPrefix
    /\ LevelWeights(right, 0) # <<>>
    /\ LevelWeights(right, 0) # LevelWeights(left, 0)
    /\ IsPrefixOf(LevelWeights(right, 0), LevelWeights(left, 0))
    /\ ~rok /\ lok /\ ret = 0

(***************************************************************************)
(* C17: right-operand prefix match.  For a 900 collation with the prefix   *)
(* flag, if at every compared level the weights of right are a prefix of   *)
(* the weights of left, Collate returns 0, r being the boundary weight 0   *)
(* at the return; and if right ran out first at the last compared level,   *)
(* left is then as SkipLevel leaves it, at the start of the level after.   *)
(***************************************************************************)
RightIsPrefixAtEveryLevel(c, a, b) ==
    \A k \in 0..(c.levelsForCompare - 1) :
        IsPrefixOf(LevelWeights(b, k), LevelWeights(a, k))

C17_RightPrefixMatch ==
    (/\ CollateDone /\ coll.kind = "uca900" /\ rightIsPrefix
     /\ RightIsPrefixAtEveryLevel(coll, left, right))
        => /\ ret = 0 /\ r = 0
           /\ LET k == coll.levelsForCompare - 1 IN
              LevelWeights(right, k) # LevelWeights(left, k)
                 => /\ itleft.level = coll.levelsForCompare /\ level = itleft.level
                    /\ itleft.pos = 1 /\ itleft.pend = <<>>

\* right runs out first at level 1 and at level 2 while level 0 is equal:
\* SkipLevel is called on left twice
C17_Witness ==
    /\ CollateDone /\ coll.kind = "uca900" /\ rightIsPrefix
    /\ coll.levelsForCompare = 3
    /\ RightIsPrefixAtEveryLevel(coll, left, right)
    /\ right # <<>>
    /\ LevelWeights(right, 0) = LevelWeights(left, 0)
    /\ LevelWeights(right, 1) # LevelWeights(left, 1)
    /\ LevelWeights(right, 2) # LevelWeights(left, 2)
    /\ ret = 0 /\ level = 3

(***************************************************************************)
(* C18: the frame of WeightString.  For every collation, dst and src the   *)
(* result starts with the bytes dst held, and these are followed by the    *)
(* weights of src in order, two bytes each, high byte first (by the bytes  *)
(* of src for the binary collation); with numCodepoints 0 that is all of   *)
(* the result.                                                             *)
(***************************************************************************)
C18_AppendFrame ==
    WSDone
        => /\ IsPrefixOf(Slice(dst0), Slice(sl))
           /\ IsPrefixOf(Slice(dst0) \o ExpectedBytes(wsColl, src), Slice(sl))
           /\ padding = 0 => Slice(sl) = Slice(dst0) \o ExpectedBytes(wsColl, src)

\* dst holds bytes and is too small for the weights: the array is replaced
C18_Witness ==
    /\ WSDone /\ padding = 0 /\ wsColl.kind = "uca900" /\ wsColl.fast
    /\ dst0.len > 0 /\ Len(ExpectedBytes(wsColl, src)) > ChunkSize
    /\ Cap(sl) # Cap(dst0)
    /\ Slice(sl) = Slice(dst0) \o ExpectedBytes(wsColl, src)

(***************************************************************************)
(* C19: lockstep levels.  In a call of Collate of a 900 collation the      *)
(* level of the comparator never decreases: it changes only in the switch, *)
(* by one, to the level of the iterators (level++, or what SkipLevel       *)
(* returns).  Whenever the loop at nextLevel is about to call Next(), on   *)
(* entry, on continuing and on each goto nextLevel, both iterators are at  *)
(* the level of the comparator, that level is below levelsForCompare, and  *)
(* neither iterator has reported exhaustion.                               *)
(***************************************************************************)
\* the iterator has given (0, false): its level is past the last one
Exhausted(i) == i.level >= i.maxLevel

AtLoop == pc = "nextLevel" /\ coll.kind = "uca900"

C19_LockstepLevels ==
    /\ [](AtLoop => /\ itleft.level = level /\ itright.level = level
                    /\ level < coll.levelsForCompare
                    /\ ~Exhausted(itleft) /\ ~Exhausted(itright))
    /\ [][/\ level' >= level
          /\ level' # level => /\ pc = "switch" /\ level' = level + 1
                               /\ level' = itright'.level
                               /\ pc' = "nextLevel" => level' = itleft'.level]_vars

\* the loop is entered again after SkipLevel: the last weights read differ
C19_Witness ==
    /\ AtLoop /\ rightIsPrefix /\ level = 2 /\ l # r
    /\ itleft.level = 2 /\ itright.level = 2 /\ itleft.pos = 1

(***************************************************************************)
(* C20: the prefix flag matters only when right runs out first.  For a 900 *)
(* or legacy collation and any operands, if Collate without the prefix     *)
(* flag returns a value at or below 0, Collate with the flag returns the   *)
(* same value.                                                             *)
(***************************************************************************)
C20_PrefixFlagKeepsNonPositive ==
    (CollateDone /\ IsUCA(coll))
        => /\ (~rightIsPrefix /\ ret <= 0) => Collate(coll, left, right, TRUE) = ret
           /\ (rightIsPrefix /\ Collate(coll, left, right, FALSE) <= 0)
                 => ret = Collate(coll, left, right, FALSE)

\* left runs out first at level 1, with the flag: -1 as without it
C20_Witness ==
    /\ CollateDone /\ coll.kind = "uca900" /\ rightIsPrefix
    /\ LevelWeights(left, 0) = LevelWeights(right, 0) /\ left # <<>>
    /\ ret = -1 /\ level = 1
    /\ Collate(coll, left, right, FALSE) = -1

=============================================================================
